---------------------------- MODULE Spec2Model ----------------------------
(***************************************************************************)
(* CodeQueryX: the context budgeter (rag_engine.py), the segmenter         *)
(* (chunker.py) and the vector store (vector_store.py).                    *)
(*                                                                         *)
(* Strings are kept run-length encoded: a string is a sequence of runs     *)
(* [c |-> character, n |-> repetitions], n >= 1, adjacent runs having      *)
(* different characters.  Three characters are told apart:                 *)
(*   "a"   an ordinary ASCII character,                                    *)
(*   "\n"  the newline,                                                    *)
(*   "u"   a code point the BPE vocabulary has no merge for (each          *)
(*         occurrence is at least one token of its own).                   *)
(* String literals of the source are runs of "a" of the literal's length.  *)
(***************************************************************************)
EXTENDS Integers, Sequences, FiniteSets, TLC

VARIABLES
    \* RAGEngine
    max_context_tokens,   \* self.max_context_tokens
    tokenizer,            \* "bpe": self.tokenizer.encode works; "none": it raises
    query,                \* the query of the call
    retrieved_chunks,     \* the (doc, score) candidates of the call
    selected_chunks,      \* the value returned by select_chunks_within_limit
    answer,               \* <<>> or <<the value returned by generate_answer>>
    response,             \* <<>> or <<the value returned by answer_question>>
    rag_pc,               \* position in answer_question: "idle", "selected", "answered", then
                          \* "returned" or "raised"
    \* CodeChunker
    chunk_size,           \* self.chunk_size
    chunk_overlap,        \* self.chunk_overlap
    text,                 \* the argument of chunk_text
    start,                \* the local start of chunk_text
    chunks,               \* the local chunks of chunk_text (the value returned)
    chunk_starts,         \* history: the value of start at each chunks.append
    chunk_pc,             \* "new", "ready", "loop", "done"
    \* VectorStore and the files it saves to
    vs_model,             \* "dense": self.model is the sentence encoder; "tfidf": self.model is None
    dimension,            \* self.dimension
    svd_fitted,           \* components of the fitted self.svd, 0 while it is not fitted
    svd_features,         \* features of the matrix self.svd was fitted on, 0 while it is not fitted
    vec_features,         \* vocabulary size of the fitted self.vectorizer, 0 while it is not fitted
    sklearn_lib,          \* the installed scikit-learn. "new" (1.1 and later): TruncatedSVD accepts
                          \* n_components = n_features, and a vectorizer fit that raises leaves
                          \* the vectorizer unfitted. "old": TruncatedSVD requires n_components <
                          \* n_features, and a vectorizer fit that raises leaves the earlier fit
    index,                \* self.index: <<>> for None, else <<[d |-> dimension, vecs |-> the vectors]>>
    documents,            \* self.documents
    files,                \* the file system: path -> file
    built,                \* history: build_index has returned on this store
    vs_ret,               \* outcome of the last call: "none", "ok", "true", "false", "raised"
    vs_call,              \* history: the last call on the store and its arguments
    last_save,            \* history: <<>> or <<the paths, index and documents of the last save>>
    results,              \* the list the last call returned when it was a search, else <<>>
    \* the front-end session (st.session_state) and the page
    vector_store,         \* <<>> for None, else <<[repo |-> the URL whose chunks the index was built on]>>
    rag_engine,           \* <<>> for None, else <<"RAGEngine">>
    repo_loaded,          \* st.session_state.repo_loaded
    repo_name,            \* st.session_state.repo_name, a sequence of characters
    chat_history,         \* st.session_state.chat_history
    page                  \* the last status the script has shown

ragVars == <<max_context_tokens, tokenizer, query, retrieved_chunks,
             selected_chunks, answer, response, rag_pc>>
chunkVars == <<chunk_size, chunk_overlap, text, start, chunks, chunk_starts, chunk_pc>>
storeVars == <<vs_model, dimension, svd_fitted, svd_features, vec_features, sklearn_lib,
               index, documents, files, built,
               vs_ret, vs_call, last_save, results>>
appVars == <<vector_store, rag_engine, repo_loaded, repo_name, chat_history, page>>
vars == <<ragVars, chunkVars, storeVars, appVars>>

Min(a, b) == IF a < b THEN a ELSE b
Max(a, b) == IF a > b THEN a ELSE b

(***************************************************************************)
(* Strings                                                                 *)
(***************************************************************************)
\* c * n
Rep(c, n) == IF n <= 0 THEN <<>> ELSE <<[c |-> c, n |-> n]>>

\* s + t
Concat(s, t) ==
    IF s = <<>> THEN t
    ELSE IF t = <<>> THEN s
    ELSE IF s[Len(s)].c = t[1].c
         THEN SubSeq(s, 1, Len(s) - 1)
                \o <<[c |-> t[1].c, n |-> s[Len(s)].n + t[1].n]>>
                \o Tail(t)
         ELSE s \o t

RECURSIVE StrLen(_)
\* len(s)
StrLen(s) == IF s = <<>> THEN 0 ELSE s[1].n + StrLen(Tail(s))

RECURSIVE Take(_, _)
\* s[:k] for k >= 0
Take(s, k) ==
    IF k <= 0 \/ s = <<>> THEN <<>>
    ELSE IF s[1].n >= k THEN <<[c |-> s[1].c, n |-> k]>>
    ELSE <<s[1]>> \o Take(Tail(s), k - s[1].n)

RECURSIVE Drop(_, _)
\* s[k:] for k >= 0
Drop(s, k) ==
    IF s = <<>> THEN <<>>
    ELSE IF k <= 0 THEN s
    ELSE IF s[1].n > k THEN <<[c |-> s[1].c, n |-> s[1].n - k]>> \o Tail(s)
    ELSE Drop(Tail(s), k - s[1].n)

\* s[lo:hi] with Python's treatment of negative and out-of-range indices
PySlice(s, lo, hi) ==
    LET n == StrLen(s)
        l == IF lo < 0 THEN Max(lo + n, 0) ELSE Min(lo, n)
        h == IF hi < 0 THEN Max(hi + n, 0) ELSE Min(hi, n)
    IN IF l >= h THEN <<>> ELSE Take(Drop(s, l), h - l)

RECURSIVE RFind(_, _)
\* s.rfind(ch): the offset of the last occurrence of ch in s, or -1
RFind(s, ch) ==
    IF s = <<>> THEN -1
    ELSE IF s[Len(s)].c = ch THEN StrLen(s) - 1
    ELSE RFind(SubSeq(s, 1, Len(s) - 1), ch)

RECURSIVE Digits(_)
\* len(str(n)) for n >= 0
Digits(n) == IF n < 10 THEN 1 ELSE 1 + Digits(n \div 10)

(***************************************************************************)
(* RAGEngine.count_tokens                                                  *)
(***************************************************************************)
RECURSIVE Encode(_)
\* len(self.tokenizer.encode(s)): the BPE merges ordinary characters (four to
\* a token here) and leaves every "u" a token of its own
Encode(s) ==
    IF s = <<>> THEN 0
    ELSE (IF s[1].c = "u" THEN s[1].n ELSE (s[1].n + 3) \div 4) + Encode(Tail(s))

count_tokens(s) ==
    IF tokenizer = "bpe" THEN Encode(s) ELSE StrLen(s) \div 4

(***************************************************************************)
(* RAGEngine.select_chunks_within_limit                                    *)
(***************************************************************************)
RECURSIVE Lines(_)
\* the lines of the given lengths joined by "\n"; a length of 0 is an empty line
Lines(ns) ==
    IF ns = <<>> THEN <<>>
    ELSE IF Len(ns) = 1 THEN Rep("a", ns[1])
    ELSE Concat(Concat(Rep("a", ns[1]), Rep("\n", 1)), Lines(Tail(ns)))

\* the prompt template up to {query}: "You are ... context.", "",
\* "Context from the codebase:", "", "User Question: "
TemplateHead == Lines(<<96, 0, 26, 0, 15>>)

\* the prompt template after {query}: "", "", "Instructions:", the six
\* instruction lines, "", "Answer:"
TemplateTail == Lines(<<0, 0, 13, 43, 52, 59, 34, 25, 122, 0, 7>>)

\* base_prompt = f"""...{query}..."""
base_prompt(q) == Concat(Concat(TemplateHead, q), TemplateTail)

\* doc.get(key, default)
Get(doc, key, default) == IF key \in DOMAIN doc THEN doc[key] ELSE default

Unknown == Rep("a", 7)      \* 'unknown'

\* f"\n--- Code Snippet {n} from {filepath} ---\n{content}\n"
RenderChunk(n, filepath, content) ==
    LET head == Concat(Rep("\n", 1), Rep("a", 17 + Digits(n) + 6))   \* "\n--- Code Snippet {n} from "
        rule == Concat(Rep("a", 4), Rep("\n", 1))                    \* " ---\n"
    IN Concat(Concat(Concat(head, filepath), rule), Concat(content, Rep("\n", 1)))

SafetyBuffer == 200
MinAvailable == 200
MinContentTokens == 50
CharsPerToken == 3

AvailableNoBuffer(q) == max_context_tokens - count_tokens(base_prompt(q))

\* available_tokens = self.max_context_tokens - base_tokens - 200
AvailableTokens(q) ==
    max_context_tokens - count_tokens(base_prompt(q)) - SafetyBuffer

RECURSIVE InsertByScore(_, _)
\* x placed after every element of the sorted list s whose score is <= x's
InsertByScore(s, x) ==
    IF s = <<>> THEN <<x>>
    ELSE IF s[1][2] <= x[2] THEN <<s[1]>> \o InsertByScore(Tail(s), x)
    ELSE <<x>> \o s

RECURSIVE SortedFrom(_, _)
SortedFrom(acc, rest) ==
    IF rest = <<>> THEN acc
    ELSE SortedFrom(InsertByScore(acc, rest[1]), Tail(rest))

Unsorted(r) == r

\* sorted(retrieved_chunks, key=lambda x: x[1]): stable, ascending
SortedChunks(r) == SortedFrom(<<>>, r)

\* truncated_doc = doc.copy(); truncated_doc['content'] = c
WithContent(doc, c) ==
    [k \in DOMAIN doc \cup {"content"} |-> IF k = "content" THEN c ELSE doc[k]]

\* the else branch of the loop body: the truncation attempt, then break
Truncation(doc, selected, available) ==
    LET filepath == Get(doc, "filepath", Unknown)
        content == Get(doc, "content", <<>>)
        header_text == RenderChunk(1, filepath, <<>>)
        header_tokens == count_tokens(header_text)
        max_content_tokens == available - header_tokens
        max_chars == max_content_tokens * CharsPerToken
        truncated_content ==
            IF StrLen(content) > max_chars
            THEN Concat(Take(content, max_chars), Rep("a", 3))
            ELSE content
    IN IF Len(selected) = 0 /\ available > MinAvailable
          /\ max_content_tokens > MinContentTokens
       THEN Append(selected, WithContent(doc, truncated_content))
       ELSE selected

RECURSIVE SelectLoopSkip(_, _, _, _, _)
SelectLoopSkip(sorted, i, selected, current, available) ==
    IF i > Len(sorted) THEN selected
    ELSE
      LET doc == sorted[i][1]
          chunk_tokens == count_tokens(RenderChunk(Len(selected) + 1,
                              Get(doc, "filepath", Unknown), Get(doc, "content", <<>>)))
      IN IF current + chunk_tokens <= available
         THEN SelectLoopSkip(sorted, i + 1, Append(selected, doc),
                             current + chunk_tokens, available)
         ELSE SelectLoopSkip(sorted, i + 1, selected, current, available)

RECURSIVE SelectLoop(_, _, _, _, _)
\* for i, (doc, score) in enumerate(sorted_chunks): ...
SelectLoop(sorted, i, selected, current, available) ==
    IF i > Len(sorted) THEN selected
    ELSE
      LET doc == sorted[i][1]
          filepath == Get(doc, "filepath", Unknown)
          content == Get(doc, "content", <<>>)
          chunk_text == RenderChunk(Len(selected) + 1, filepath, content)
          chunk_tokens == count_tokens(chunk_text)
      IN IF current + chunk_tokens <= available
         THEN SelectLoop(sorted, i + 1, Append(selected, doc),
                         current + chunk_tokens, available)
         ELSE Truncation(doc, selected, available)

select_chunks_within_limit(r, q) ==
    SelectLoop(SortedChunks(r), 1, <<>>, 0, AvailableTokens(q))


(***************************************************************************)
(* Inputs of the budgeter                                                  *)
(***************************************************************************)
MaxCands == 2          \* candidates of an enumerated call

\* distances, in tenths
Scores == {1, 2}

Path == Rep("a", 10)

Doc(id, content) == [filepath |-> Path, content |-> content, chunk_id |-> id]

Docs ==
    { Doc(0, Rep("a", 400)),                       \* fits a small budget
      [content |-> Rep("a", 400), chunk_id |-> 1], \* no filepath key
      Doc(2, Rep("a", 2000)),                      \* ordinary text, too long for a small budget
      Doc(3, Rep("u", 600)),                       \* unmergeable text, short
      Doc(4, Rep("u", 40000)),                     \* unmergeable text, too long for the default budget
      Doc(5, Rep("a", 60000)) }                    \* ordinary text, too long for the default budget

Candidates == Docs \X Scores

CandidateLists == UNION { [1..n -> Candidates] : n \in 0..MaxCands }

\* five equal-size candidates with distances 0.1 .. 0.5 (in tenths), in
\* ranked order and in a shuffled order
FiveEqual ==
    { [i \in 1..5 |-> <<Doc(i, Rep("a", 400)), i>>],
      [i \in 1..5 |-> <<Doc(i, Rep("a", 400)), <<3, 1, 5, 2, 4>>[i]>>] }

\* longer calls: a misfit between two candidates that fit, and candidates
\* supplied out of distance order with equal distances among them
Mixed ==
    { <<<<Doc(0, Rep("a", 400)), 1>>, <<Doc(2, Rep("a", 2000)), 1>>, <<Doc(6, Rep("a", 400)), 2>>>>,
      <<<<Doc(0, Rep("a", 400)), 2>>, <<Doc(2, Rep("a", 2000)), 1>>, <<Doc(6, Rep("a", 400)), 1>>>>,
      <<<<Doc(3, Rep("u", 600)), 2>>, <<Doc(0, Rep("a", 400)), 2>>, <<Doc(6, Rep("a", 400)), 1>>,
        <<Doc(7, Rep("a", 400)), 2>>>> }

Queries == { <<>>, Rep("a", 30) }

DefaultMaxContextTokens == 10000

\* budgets: the default, and budgets placed around scaffold + buffer
BudgetOffsets == { -1, 0, 230, 260, 1300 }

RagIdle ==
    /\ max_context_tokens = DefaultMaxContextTokens
    /\ tokenizer = "bpe"
    /\ query = <<>>
    /\ retrieved_chunks = <<>>
    /\ selected_chunks = <<>>
    /\ answer = <<>>
    /\ response = <<>>
    /\ rag_pc = "idle"

ChunkerIdle ==
    /\ chunk_size = 1000
    /\ chunk_overlap = 200
    /\ text = <<>>
    /\ start = 0
    /\ chunks = <<>>
    /\ chunk_starts = <<>>
    /\ chunk_pc = "new"

Call(op, a, b) == [op |-> op, a |-> a, b |-> b]

Absent == [kind |-> "absent", d |-> 0, vecs |-> <<>>, docs |-> <<>>]

IndexPath == "faiss_index.bin"
DocsPath == "documents.pkl"
Paths == {IndexPath, DocsPath}

DenseDimension == 384
TfidfDimension == 512

StoreIdle ==
    /\ vs_model = "dense"
    /\ dimension = DenseDimension
    /\ svd_fitted = 0
    /\ svd_features = 0
    /\ vec_features = 0
    /\ sklearn_lib = "new"
    /\ index = <<>>
    /\ documents = <<>>
    /\ files = [p \in Paths |-> Absent]
    /\ built = FALSE
    /\ vs_ret = "none"
    /\ vs_call = Call("init", 0, 0)
    /\ last_save = <<>>
    /\ results = <<>>

\* the session state the script initialises on its first run
SessionNew ==
    /\ vector_store = <<>>
    /\ rag_engine = <<>>
    /\ repo_loaded = FALSE
    /\ repo_name = <<>>
    /\ chat_history = <<>>
    /\ page = "start"

InitBudget ==
    /\ tokenizer \in {"bpe", "none"}
    /\ query \in Queries
    /\ max_context_tokens \in
         {DefaultMaxContextTokens}
           \cup { count_tokens(base_prompt(query)) + SafetyBuffer + d : d \in BudgetOffsets }
    /\ retrieved_chunks \in CandidateLists \cup FiveEqual \cup Mixed
    /\ selected_chunks = <<>>
    /\ answer = <<>>
    /\ response = <<>>
    /\ rag_pc = "idle"
    /\ ChunkerIdle
    /\ StoreIdle
    /\ SessionNew

\* context_chunks = self.select_chunks_within_limit(retrieved_chunks, query)
Select ==
    /\ rag_pc = "idle"
    /\ selected_chunks' = select_chunks_within_limit(retrieved_chunks, query)
    /\ rag_pc' = "selected"
    /\ UNCHANGED <<max_context_tokens, tokenizer, query, retrieved_chunks, answer, response>>
    /\ UNCHANGED <<chunkVars, storeVars, appVars>>

RECURSIVE ContextText(_, _)
\* context_text of create_prompt: the chunks from the i-th on, rendered
ContextText(context_chunks, i) ==
    IF i > Len(context_chunks) THEN <<>>
    ELSE Concat(RenderChunk(i, Get(context_chunks[i], "filepath", Unknown),
                            Get(context_chunks[i], "content", <<>>)),
                ContextText(context_chunks, i + 1))

\* the prompt of create_prompt: "You are ... context.", "",
\* "Context from the codebase:", {context_text}, "", "User Question: {query}"
\* and the rest of the template
PromptText(q, context_chunks) ==
    Concat(Concat(Concat(Lines(<<96, 0, 26>>), Rep("\n", 1)),
                  ContextText(context_chunks, 1)),
           Concat(Concat(Concat(Rep("\n", 2), Rep("a", 15)), q), TemplateTail))

\* create_prompt raises ValueError when the prompt counts more than the limit
PromptExceeds(q, context_chunks) ==
    count_tokens(PromptText(q, context_chunks)) > max_context_tokens

\* what the chat completion call does: it returns a completion whose
\* message.content is text or None, or it raises
ApiOutcomes == {"text", "none", "APIConnectionError", "RateLimitError"}

\* f"Error generating answer: {str(e)}"
ErrorPayload(e) == [payload |-> "error", message |-> e]

\* generate_answer: create_prompt and the API call run inside one try whose
\* except Exception clause returns the error string
generate_answer(q, context_chunks, api) ==
    IF PromptExceeds(q, context_chunks)
    THEN ErrorPayload("Prompt exceeds token limit")
    ELSE IF api = "text"
    THEN [payload |-> "text", message |-> "chat_completion.choices[0].message.content"]
    ELSE IF api = "none"
    THEN [payload |-> "none", message |-> "None"]
    ELSE ErrorPayload(api)

\* answer = self.generate_answer(query, context_chunks)
GenerateAnswer(api) ==
    /\ rag_pc = "selected"
    /\ answer' = <<generate_answer(query, selected_chunks, api)>>
    /\ rag_pc' = "answered"
    /\ UNCHANGED <<max_context_tokens, tokenizer, query, retrieved_chunks,
                   selected_chunks, response>>
    /\ UNCHANGED <<chunkVars, storeVars, appVars>>

\* selected_filepaths = {chunk.get('filepath', 'unknown') for chunk in context_chunks}
SelectedFilepaths(context_chunks) ==
    { Get(context_chunks[i], "filepath", Unknown) : i \in 1..Len(context_chunks) }

RECURSIVE Sources(_, _, _)
\* the sources loop over retrieved_chunks from the i-th pair on
Sources(retrieved, i, selected_filepaths) ==
    IF i > Len(retrieved) THEN <<>>
    ELSE LET doc == retrieved[i][1]
             filepath == Get(doc, "filepath", Unknown)
             rest == Sources(retrieved, i + 1, selected_filepaths)
         IN IF filepath \in selected_filepaths
            THEN <<[filepath |-> filepath,
                    score |-> retrieved[i][2],
                    preview |-> Concat(Take(Get(doc, "content", <<>>), 200), Rep("a", 3))]>>
                 \o rest
            ELSE rest

\* the dictionary answer_question returns
Bundle(retrieved, context_chunks, ans) ==
    [answer |-> ans,
     sources |-> Sources(retrieved, 1, SelectedFilepaths(context_chunks)),
     chunks_used |-> Len(context_chunks),
     chunks_retrieved |-> Len(retrieved)]

\* the rest of answer_question: sources, counts, answer += "" when fewer
\* chunks were used than retrieved (a TypeError when answer is None), return
Respond ==
    /\ rag_pc = "answered"
    /\ IF answer[1].payload = "none" /\ Len(selected_chunks) < Len(retrieved_chunks)
       THEN /\ rag_pc' = "raised"
            /\ UNCHANGED response
       ELSE /\ response' = <<Bundle(retrieved_chunks, selected_chunks, answer[1])>>
            /\ rag_pc' = "returned"
    /\ UNCHANGED <<max_context_tokens, tokenizer, query, retrieved_chunks,
                   selected_chunks, answer>>
    /\ UNCHANGED <<chunkVars, storeVars, appVars>>

NextBudget ==
    \/ Select
    \/ \E api \in ApiOutcomes : GenerateAnswer(api)
    \/ Respond

SpecBudget == InitBudget /\ [][NextBudget]_vars

(***************************************************************************)
(* Properties of the budgeter                                              *)
(***************************************************************************)
BaseTokens == count_tokens(base_prompt(query))
Remaining == max_context_tokens - BaseTokens - SafetyBuffer

\* the cost of doc rendered as snippet number i of the prompt
Cost(i, doc) ==
    count_tokens(RenderChunk(i, Get(doc, "filepath", Unknown), Get(doc, "content", <<>>)))

RECURSIVE PrefixCost(_, _)
\* the cost of the first j documents of docs, each at its own position
PrefixCost(docs, j) ==
    IF j = 0 THEN 0 ELSE PrefixCost(docs, j - 1) + Cost(j, docs[j])

Ranked == SortedChunks(retrieved_chunks)
RankedDocs == [i \in 1..Len(Ranked) |-> Ranked[i][1]]

\* C1: whenever chunks are accepted, scaffold cost + safety margin + the
\* rendered cost of the accepted chunks (a truncated one included) is at most
\* the budget.
C1_BudgetRespected ==
    (rag_pc = "selected" /\ selected_chunks # <<>>)
        => BaseTokens + SafetyBuffer + PrefixCost(selected_chunks, Len(selected_chunks))
              <= max_context_tokens

\* the number of leading ranked candidates accepted before the first misfit
FitCount ==
    CHOOSE k \in 0..Len(RankedDocs) :
        /\ \A j \in 1..k : PrefixCost(RankedDocs, j) <= Remaining
        /\ k < Len(RankedDocs) => PrefixCost(RankedDocs, k + 1) > Remaining

SameButContent(d, e) ==
    /\ DOMAIN d \cup {"content"} = DOMAIN e \cup {"content"}
    /\ \A k \in DOMAIN d \ {"content"} : d[k] = e[k]

\* C2: greedy stop.  The candidates are ranked by ascending distance; the
\* selection is exactly the ranked candidates before the first one that does
\* not fit, and nothing ranked after it; when the very first one does not fit
\* the selection is empty or a single copy of it with its content cut.
C2_GreedyStop ==
    rag_pc = "selected" =>
        /\ \A i, j \in 1..Len(Ranked) : i < j => Ranked[i][2] <= Ranked[j][2]
        /\ FitCount > 0 => selected_chunks = SubSeq(RankedDocs, 1, FitCount)
        /\ FitCount = 0 =>
              \/ selected_chunks = <<>>
              \/ /\ Len(selected_chunks) = 1
                 /\ SameButContent(selected_chunks[1], RankedDocs[1])

\* five equal-cost candidates supplied out of order, room for exactly two:
\* the two of distance 0.1 and 0.2 are returned
C2_Witness ==
    /\ rag_pc = "selected"
    /\ retrieved_chunks = [i \in 1..5 |-> <<Doc(i, Rep("a", 400)), <<3, 1, 5, 2, 4>>[i]>>]
    /\ PrefixCost(RankedDocs, 2) <= Remaining
    /\ PrefixCost(RankedDocs, 3) > Remaining
    /\ selected_chunks = <<Doc(2, Rep("a", 400)), Doc(4, Rep("a", 400))>>

\* C3: when the top candidate does not fit whole and the remaining budget
\* exceeds the minimum, exactly one chunk is returned and its rendered cost
\* is at most the remaining budget.
C3_TruncatedFits ==
    (/\ rag_pc = "selected"
     /\ retrieved_chunks # <<>>
     /\ Remaining > MinAvailable
     /\ Cost(1, RankedDocs[1]) > Remaining)
        => /\ Len(selected_chunks) = 1
           /\ SameButContent(selected_chunks[1], RankedDocs[1])
           /\ Cost(1, selected_chunks[1]) <= Remaining

\* position of candidate i in ascending (distance, input position) order
RankOf(r, i) ==
    1 + Cardinality({ j \in 1..Len(r) :
                        \/ r[j][2] < r[i][2]
                        \/ r[j][2] = r[i][2] /\ j < i })

RECURSIVE WorstCost(_, _)
\* the cost of the first j candidates of r, each costed at the last position
WorstCost(r, j) ==
    IF j = 0 THEN 0 ELSE WorstCost(r, j - 1) + Cost(Len(r), r[j][1])

RoomForAll == WorstCost(retrieved_chunks, Len(retrieved_chunks)) <= Remaining

\* C4: when the budget has room for all candidates, all are returned,
\* unmodified, by ascending distance, equal distances in input order.
C4_AllReturnedInOrder ==
    (rag_pc = "selected" /\ RoomForAll) =>
        /\ Len(selected_chunks) = Len(retrieved_chunks)
        /\ \A i \in 1..Len(retrieved_chunks) :
              selected_chunks[RankOf(retrieved_chunks, i)] = retrieved_chunks[i][1]

\* room for all, candidates supplied out of distance order, with a tie
C4_Witness ==
    /\ rag_pc = "selected"
    /\ RoomForAll
    /\ Len(retrieved_chunks) >= 3
    /\ \E i, j, k \in 1..Len(retrieved_chunks) :
          /\ i < j /\ retrieved_chunks[i][2] > retrieved_chunks[j][2]
          /\ j < k /\ retrieved_chunks[j][2] = retrieved_chunks[k][2]
          /\ retrieved_chunks[j][1] # retrieved_chunks[k][1]
    /\ Len(selected_chunks) = Len(retrieved_chunks)

\* C5: a budget at or below scaffold cost + safety margin yields the empty
\* selection, whatever the candidates.
C5_EmptyBelowScaffold ==
    (rag_pc = "selected" /\ max_context_tokens <= BaseTokens + SafetyBuffer)
        => selected_chunks = <<>>

\* the budget equals scaffold + margin and candidates were supplied
C5_Witness ==
    /\ rag_pc = "selected"
    /\ max_context_tokens = BaseTokens + SafetyBuffer
    /\ Len(retrieved_chunks) >= 2
    /\ selected_chunks = <<>>

(***************************************************************************)
(* CodeChunker                                                             *)
(***************************************************************************)
MaxSize == 4           \* chunk sizes 1..MaxSize, overlaps -1..MaxSize
MaxTextLen == 6        \* enumerated texts have at most MaxTextLen characters
MaxChunks == 10        \* chunk_text is followed for at most MaxChunks appends

DefaultChunkSize == 1000
DefaultChunkOverlap == 200
AppChunkSize == 3000
AppChunkOverlap == 200

RECURSIVE ToStr(_)
\* the string of a sequence of characters
ToStr(cs) == IF cs = <<>> THEN <<>> ELSE Concat(Rep(cs[1], 1), ToStr(Tail(cs)))

SmallTexts == { ToStr(cs) : cs \in UNION { [1..n -> {"a", "\n"}] : n \in 0..MaxTextLen } }

LongTexts ==
    { Rep("a", 7000),
      Rep("a", 1700),
      Concat(Concat(Rep("a", 2000), Rep("\n", 1)), Rep("a", 4999)) }

SmallConfigs == (1..MaxSize) \X (-1..MaxSize)
LongConfigs == { <<DefaultChunkSize, DefaultChunkOverlap>>, <<AppChunkSize, AppChunkOverlap>> }

\* CodeChunker.__init__(chunk_size, chunk_overlap)
Construct(size, overlap) ==
    /\ chunk_pc = "new"
    /\ chunk_size' = size
    /\ chunk_overlap' = overlap
    /\ chunk_pc' = "ready"
    /\ UNCHANGED <<text, start, chunks, chunk_starts>>
    /\ UNCHANGED <<ragVars, storeVars, appVars>>

\* chunk_text(t) up to the loop: the early return, or chunks = [], start = 0
ChunkTextCall(t) ==
    /\ chunk_pc \in {"ready", "done"}
    /\ text' = t
    /\ start' = 0
    /\ IF StrLen(t) <= chunk_size
       THEN /\ chunks' = <<t>>
            /\ chunk_starts' = <<0>>
            /\ chunk_pc' = "done"
       ELSE /\ chunks' = <<>>
            /\ chunk_starts' = <<>>
            /\ chunk_pc' = "loop"
    /\ UNCHANGED <<chunk_size, chunk_overlap>>
    /\ UNCHANGED <<ragVars, storeVars, appVars>>

\* the window end after the newline adjustment
WindowEnd(st) ==
    LET end == st + chunk_size
        chunk == PySlice(text, st, end)
        last_newline == RFind(chunk, "\n")
    IN IF end < StrLen(text) /\ last_newline > chunk_size \div 2
       THEN st + last_newline
       ELSE end

\* the chunk appended by an iteration that starts at st
WindowChunk(st) ==
    LET end == st + chunk_size
        chunk == PySlice(text, st, end)
        last_newline == RFind(chunk, "\n")
    IN IF end < StrLen(text) /\ last_newline > chunk_size \div 2
       THEN Take(chunk, last_newline)
       ELSE chunk

NextStartNoOverlap(end) == end

\* start = end - self.chunk_overlap
NextStart(end) == end - chunk_overlap

\* one iteration of: while start < len(text)
ChunkTextIter ==
    /\ chunk_pc = "loop"
    /\ start < StrLen(text)
    /\ Len(chunks) < MaxChunks
    /\ chunks' = Append(chunks, WindowChunk(start))
    /\ chunk_starts' = Append(chunk_starts, start)
    /\ start' = NextStart(WindowEnd(start))
    /\ UNCHANGED <<chunk_size, chunk_overlap, text, chunk_pc>>
    /\ UNCHANGED <<ragVars, storeVars, appVars>>

\* the loop condition fails: return chunks
ChunkTextReturn ==
    /\ chunk_pc = "loop"
    /\ ~(start < StrLen(text))
    /\ chunk_pc' = "done"
    /\ UNCHANGED <<chunk_size, chunk_overlap, text, start, chunks, chunk_starts>>
    /\ UNCHANGED <<ragVars, storeVars, appVars>>

InitChunk == RagIdle /\ ChunkerIdle /\ StoreIdle /\ SessionNew

NextChunk ==
    \/ \E c \in SmallConfigs \cup LongConfigs : Construct(c[1], c[2])
    \/ \E t \in SmallTexts \cup LongTexts :
          /\ (t \in LongTexts) = (chunk_size >= DefaultChunkSize)
          /\ ChunkTextCall(t)
    \/ ChunkTextIter
    \/ ChunkTextReturn

SpecChunk == InitChunk /\ [][NextChunk]_vars

(***************************************************************************)
(* Properties of the chunker                                               *)
(***************************************************************************)
ValidConfig == 0 <= chunk_overlap /\ chunk_overlap < chunk_size

\* C6: with 0 <= overlap < size every iteration of the loop strictly
\* increases start, so the loop ends.
C6_StartIncreases ==
    [][(chunk_pc = "loop" /\ chunk_pc' = "loop" /\ ValidConfig) => start' > start]_vars

\* C7: a chunker with overlap >= size (or a negative overlap) does not get
\* constructed.
C7_ConfigRejected == chunk_pc # "new" => ValidConfig

ChunkEnd(k) == chunk_starts[k] + StrLen(chunks[k])

\* C8: with 0 <= overlap < size the chunks returned are slices of the text,
\* the first at offset 0, each next one starting exactly overlap characters
\* before the end of the previous one, covering every character, the last
\* one ending at the end of the text.
C8_ContiguousCover ==
    (chunk_pc = "done" /\ ValidConfig) =>
        /\ chunks # <<>>
        /\ chunk_starts[1] = 0
        /\ \A k \in 1..Len(chunks) :
              /\ chunk_starts[k] >= 0
              /\ chunks[k] = PySlice(text, chunk_starts[k], ChunkEnd(k))
        /\ \A k \in 1..Len(chunks) - 1 :
              chunk_starts[k + 1] = ChunkEnd(k) - chunk_overlap
        /\ ChunkEnd(Len(chunks)) = StrLen(text)

SevenThousand ==
    /\ chunk_pc = "done"
    /\ chunk_size = AppChunkSize
    /\ chunk_overlap = AppChunkOverlap
    /\ text = Rep("a", 7000)

\* C9 as stated: 4 chunks, at offsets 0, 2800, 5600, the final one reaching 7000
C9_FourChunks ==
    SevenThousand =>
        /\ Len(chunks) = 4
        /\ SubSeq(chunk_starts, 1, 3) = <<0, 2800, 5600>>
        /\ ChunkEnd(Len(chunks)) = 7000

\* C9 amended: chunk_text with size 3000 and overlap 200 on a 7000-character
\* newline-free string yields 3 chunks, the slices starting at offsets 0,
\* 2800 and 5600, the last one reaching offset 7000.
C9_ThreeChunks ==
    SevenThousand =>
        /\ Len(chunks) = 3
        /\ chunk_starts = <<0, 2800, 5600>>
        /\ chunks = <<Rep("a", 3000), Rep("a", 3000), Rep("a", 1400)>>
        /\ ChunkEnd(3) = 7000

C9_Witness == SevenThousand /\ Len(chunks) = 3

(***************************************************************************)
(* VectorStore                                                             *)
(*                                                                         *)
(* A chunk of the store is [content |-> word, chunk_id |-> n]: its content *)
(* is one word, a number; word 0 is a stop word.  The embedding of a word  *)
(* is the word itself, and the distance of two embeddings the square of    *)
(* their difference.                                                       *)
(***************************************************************************)
StoreChunk(w, id) == [content |-> w, chunk_id |-> id]

\* the chunk lists handed to build_index (app.py stops on an empty corpus)
ChunkLists ==
    { <<StoreChunk(1, 0)>>,
      <<StoreChunk(0, 0), StoreChunk(0, 1)>>,
      <<StoreChunk(3, 0), StoreChunk(1, 1)>>,
      <<StoreChunk(2, 0), StoreChunk(5, 1), StoreChunk(2, 2)>> }

QueryWords == {1, 4}
TopK == {1, 5}

\* VectorStore.__init__: the encoder loads, or the TF-IDF fallback is set up
NewStore(strategy) ==
    /\ vs_model' = strategy
    /\ dimension' = IF strategy = "dense" THEN DenseDimension ELSE TfidfDimension
    /\ svd_fitted' = 0
    /\ svd_features' = 0
    /\ vec_features' = 0
    /\ index' = <<>>
    /\ documents' = <<>>
    /\ built' = FALSE
    /\ vs_ret' = "none"
    /\ vs_call' = Call("init", 0, 0)
    /\ results' = <<>>
    /\ UNCHANGED <<files, last_save, sklearn_lib>>
    /\ UNCHANGED <<ragVars, chunkVars, appVars>>

\* tfidf_matrix.shape[1]: the words of the corpus that are not stop words
NFeatures(chs) == Cardinality({ chs[i].content : i \in 1..Len(chs) } \ {0})

\* n_components = min(self.dimension, n_features, len(texts))
NComponents(chs) == Min(dimension, Min(NFeatures(chs), Len(chs)))

\* embeddings of the chunks, row i for chunk i
Embeddings(chs) == [i \in 1..Len(chs) |-> chs[i].content]

\* self.dimension after lines 51-54
Lowered(chs) ==
    IF vs_model = "tfidf" /\ NComponents(chs) < dimension THEN NComponents(chs) ELSE dimension

\* how create_embeddings ends: the vectorizer raises on an empty vocabulary
\* (line 45), self.svd.fit_transform raises (line 56) on a matrix of fewer
\* than two features or, with the old library, on n_components >= n_features,
\* or the embeddings are returned
EmbedOutcome(chs) ==
    IF vs_model = "dense" THEN "ok"
    ELSE IF NFeatures(chs) = 0 THEN "empty_vocabulary"
    ELSE IF NFeatures(chs) < 2 \/ (sklearn_lib = "old" /\ Lowered(chs) >= NFeatures(chs))
    THEN "svd_raises"
    ELSE "ok"

\* what create_embeddings does to the store
Embed(chs) ==
    IF vs_model = "dense"
    THEN UNCHANGED <<dimension, svd_fitted, svd_features, vec_features>>
    ELSE IF EmbedOutcome(chs) = "empty_vocabulary"
    THEN \* line 45 raises; the new library has by then replaced the fitted idf
         \* transformer of the vectorizer by an unfitted one
         /\ vec_features' = IF sklearn_lib = "new" THEN 0 ELSE vec_features
         /\ UNCHANGED <<dimension, svd_fitted, svd_features>>
    ELSE /\ vec_features' = NFeatures(chs)
         /\ dimension' = Lowered(chs)
         /\ IF EmbedOutcome(chs) = "ok"
            THEN /\ svd_fitted' = Lowered(chs)
                 /\ svd_features' = NFeatures(chs)
            ELSE IF NComponents(chs) < dimension
            THEN \* the new TruncatedSVD was never fitted
                 /\ svd_fitted' = 0
                 /\ svd_features' = 0
            ELSE UNCHANGED <<svd_fitted, svd_features>>

\* build_index(chunks)
BuildIndex(chs) ==
    /\ Embed(chs)
    /\ IF EmbedOutcome(chs) = "ok"
       THEN /\ index' = <<[d |-> Lowered(chs), vecs |-> Embeddings(chs)]>>
            /\ documents' = chs
            /\ built' = TRUE
            /\ vs_ret' = "ok"
       ELSE /\ vs_ret' = "raised"
            /\ UNCHANGED <<index, documents, built>>
    /\ vs_call' = Call("build_index", 0, 0)
    /\ results' = <<>>
    /\ UNCHANGED <<vs_model, sklearn_lib, files, last_save>>
    /\ UNCHANGED <<ragVars, chunkVars, appVars>>

\* create_embeddings(chunks) called on its own: the index and the documents stay
CreateEmbeddings(chs) ==
    /\ Embed(chs)
    /\ vs_ret' = IF EmbedOutcome(chs) = "ok" THEN "ok" ELSE "raised"
    /\ vs_call' = Call("create_embeddings", 0, 0)
    /\ results' = <<>>
    /\ UNCHANGED <<vs_model, sklearn_lib, index, documents, files, built, last_save>>
    /\ UNCHANGED <<ragVars, chunkVars, appVars>>

\* positions of vecs by ascending distance to q, nearest first
RECURSIVE Nearest(_, _, _)
Nearest(vecs, q, left) ==
    IF left = {} THEN <<>>
    ELSE LET Dist(i) == (vecs[i] - q) * (vecs[i] - q)
             best == CHOOSE i \in left :
                        \A j \in left : Dist(i) < Dist(j) \/ (Dist(i) = Dist(j) /\ i <= j)
         IN <<<<best, Dist(best)>>>> \o Nearest(vecs, q, left \ {best})

\* the (document, distance) pairs of the hits that have a document
RECURSIVE Hits(_)
Hits(found) ==
    IF found = <<>> THEN <<>>
    ELSE (IF found[1][1] <= Len(documents)
          THEN <<<<documents[found[1][1]], found[1][2]>>>> ELSE <<>>)
         \o Hits(Tail(found))

\* the dimension a query is encoded into; 0 when the encoding raises (the
\* TF-IDF vectorizer or SVD is not fitted, or the SVD was fitted on another
\* number of features than the vectorizer now gives)
QueryDimension ==
    IF vs_model = "dense" THEN DenseDimension
    ELSE IF vec_features = 0 \/ vec_features # svd_features THEN 0
    ELSE svd_fitted

SearchNoGuard(q, k) ==
    /\ IF index = <<>> \/ QueryDimension = 0 \/ index[1].d # QueryDimension
       THEN /\ vs_ret' = "raised"
            /\ results' = <<>>
       ELSE LET kk == Min(k, Len(index[1].vecs))
                found == SubSeq(Nearest(index[1].vecs, q, 1..Len(index[1].vecs)), 1, kk)
            IN /\ results' = Hits(found)
               /\ vs_ret' = "ok"
    /\ vs_call' = Call("search", q, k)
    /\ UNCHANGED <<vs_model, dimension, svd_fitted, svd_features, vec_features, sklearn_lib,
                   index, documents, files, built,
                   last_save>>
    /\ UNCHANGED <<ragVars, chunkVars, appVars>>

\* search(query, k), k >= 1
Search(q, k) ==
    /\ IF index = <<>> \/ Len(index[1].vecs) = 0
       THEN /\ results' = <<>>
            /\ vs_ret' = "ok"
       ELSE IF QueryDimension = 0 \/ index[1].d # QueryDimension
            THEN \* the vectorizer is not fitted, or the index rejects the query's dimension
                 /\ vs_ret' = "raised"
                 /\ results' = <<>>
            ELSE LET kk == Min(k, Len(index[1].vecs))
                     found == SubSeq(Nearest(index[1].vecs, q, 1..Len(index[1].vecs)), 1, kk)
                 IN /\ results' = Hits(found)
                    /\ vs_ret' = "ok"
    /\ vs_call' = Call("search", q, k)
    /\ UNCHANGED <<vs_model, dimension, svd_fitted, svd_features, vec_features, sklearn_lib,
                   index, documents, files, built,
                   last_save>>
    /\ UNCHANGED <<ragVars, chunkVars, appVars>>

\* save(index_path, docs_path): the index file is written, then the documents file
Save(index_path, docs_path) ==
    /\ IF index # <<>>
       THEN /\ files' = [p \in Paths |->
                        IF p = docs_path
                        THEN [kind |-> "docs", d |-> 0, vecs |-> <<>>, docs |-> documents]
                        ELSE IF p = index_path
                        THEN [kind |-> "index", d |-> index[1].d, vecs |-> index[1].vecs,
                              docs |-> <<>>]
                        ELSE files[p]]
            /\ last_save' = <<[index_path |-> index_path, docs_path |-> docs_path,
                               index |-> index, documents |-> documents]>>
       ELSE UNCHANGED <<files, last_save>>
    /\ vs_ret' = "ok"
    /\ vs_call' = Call("save", index_path, docs_path)
    /\ results' = <<>>
    /\ UNCHANGED <<vs_model, dimension, svd_fitted, svd_features, vec_features, sklearn_lib,
                   index, documents, built>>
    /\ UNCHANGED <<ragVars, chunkVars, appVars>>

\* load that restores the index and leaves the documents of the store alone
LoadIndexOnly(index_path, docs_path) ==
    /\ IF files[index_path].kind # "index"
       THEN /\ vs_ret' = "false"
            /\ UNCHANGED <<index, documents>>
       ELSE /\ index' = <<[d |-> files[index_path].d, vecs |-> files[index_path].vecs]>>
            /\ UNCHANGED documents
            /\ vs_ret' = IF files[docs_path].kind # "docs" THEN "false" ELSE "true"
    /\ vs_call' = Call("load", index_path, docs_path)
    /\ results' = <<>>
    /\ UNCHANGED <<vs_model, dimension, svd_fitted, svd_features, vec_features, sklearn_lib,
                   files, built, last_save>>
    /\ UNCHANGED <<ragVars, chunkVars, appVars>>

\* load(index_path, docs_path): read_index, then pickle.load; any exception
\* ends the call with False and whatever was assigned before it
Load(index_path, docs_path) ==
    /\ IF files[index_path].kind # "index"
       THEN /\ vs_ret' = "false"
            /\ UNCHANGED <<index, documents>>
       ELSE /\ index' = <<[d |-> files[index_path].d, vecs |-> files[index_path].vecs]>>
            /\ IF files[docs_path].kind # "docs"
               THEN /\ vs_ret' = "false"
                    /\ UNCHANGED documents
               ELSE /\ documents' = files[docs_path].docs
                    /\ vs_ret' = "true"
    /\ vs_call' = Call("load", index_path, docs_path)
    /\ results' = <<>>
    /\ UNCHANGED <<vs_model, dimension, svd_fitted, svd_features, vec_features, sklearn_lib,
                   files, built, last_save>>
    /\ UNCHANGED <<ragVars, chunkVars, appVars>>

\* files left by an earlier process: an index of no vectors and its empty
\* document list
EmptySaved ==
    [p \in Paths |->
        IF p = IndexPath
        THEN [kind |-> "index", d |-> DenseDimension, vecs |-> <<>>, docs |-> <<>>]
        ELSE [kind |-> "docs", d |-> 0, vecs |-> <<>>, docs |-> <<>>]]

InitStore ==
    /\ RagIdle
    /\ ChunkerIdle
    /\ SessionNew
    /\ vs_model \in {"dense", "tfidf"}
    /\ dimension = IF vs_model = "dense" THEN DenseDimension ELSE TfidfDimension
    /\ svd_fitted = 0
    /\ svd_features = 0
    /\ vec_features = 0
    /\ sklearn_lib \in {"new", "old"}
    /\ index = <<>>
    /\ documents = <<>>
    /\ files \in { [p \in Paths |-> Absent], EmptySaved }
    /\ built = FALSE
    /\ vs_ret = "none"
    /\ vs_call = Call("init", 0, 0)
    /\ last_save = <<>>
    /\ results = <<>>

NextStore ==
    \/ \E strategy \in {"dense", "tfidf"} : NewStore(strategy)
    \/ \E chs \in ChunkLists : BuildIndex(chs)
    \/ \E chs \in ChunkLists : CreateEmbeddings(chs)
    \/ \E q \in QueryWords, k \in TopK : Search(q, k)
    \/ \E ip, dp \in Paths : Save(ip, dp)
    \/ \E ip, dp \in Paths : Load(ip, dp)

SpecStore == InitStore /\ [][NextStore]_vars

(***************************************************************************)
(* Properties of the vector store                                          *)
(***************************************************************************)
\* C10: once build_index has returned, the index holds as many vectors as
\* there are documents, and vector i is the embedding of documents[i],
\* whatever build_index, search, save and load calls follow.
C10_IndexMatchesDocuments ==
    built =>
        /\ index # <<>>
        /\ Len(index[1].vecs) = Len(documents)
        /\ index[1].vecs = Embeddings(documents)

\* C11: a search that returns gives at most min(k, stored vectors) pairs
\* in non-decreasing order of distance; on an unbuilt index or an index of
\* no vectors it returns the empty list and does not raise.
C11_SearchResult ==
    vs_call.op = "search" =>
        LET count == IF index = <<>> THEN 0 ELSE Len(index[1].vecs)
        IN /\ count = 0 => (vs_ret = "ok" /\ results = <<>>)
           /\ vs_ret = "ok" =>
                 /\ Len(results) <= Min(vs_call.b, count)
                 /\ \A i, j \in 1..Len(results) : i < j => results[i][2] <= results[j][2]

\* a search on an unbuilt store, on an index of no vectors, and one that
\* had to clamp k and returned hits at different distances
C11_WitnessUnbuilt == vs_call.op = "search" /\ index = <<>> /\ results = <<>>

C11_WitnessEmptyIndex ==
    vs_call.op = "search" /\ index # <<>> /\ Len(index[1].vecs) = 0 /\ vs_ret = "ok"

C11_Witness ==
    /\ vs_call.op = "search"
    /\ vs_ret = "ok"
    /\ index # <<>>
    /\ vs_call.b > Len(index[1].vecs)
    /\ Len(results) = Len(index[1].vecs)
    /\ Len(results) >= 2
    /\ results[1][2] < results[Len(results)][2]

\* the last call was a load from the paths the last save of a built store
\* was given
LoadOfLastSave ==
    /\ vs_call.op = "load"
    /\ last_save # <<>>
    /\ vs_call.a = last_save[1].index_path
    /\ vs_call.b = last_save[1].docs_path

\* the load succeeded and the index and the document list are exactly as
\* they were at the save: the same vectors, the same documents in the same
\* order, so the same pairing of vector positions with documents
Restored ==
    /\ vs_ret = "true"
    /\ index = last_save[1].index
    /\ documents = last_save[1].documents

\* C12 as stated: a load from the paths of the last save of a built store,
\* in the saving store or in a fresh one, succeeds and restores the index
\* and the documents of save time.
C12_SaveLoadAnyPaths == LoadOfLastSave => Restored

\* C12, amended: the same for a save whose index path and documents path
\* are different files.
C12_SaveLoadRestores == (LoadOfLastSave /\ vs_call.a # vs_call.b) => Restored

\* a store of another strategy, built on other chunks, that has loaded what
\* an earlier store saved
C12_Witness ==
    /\ vs_call.op = "load"
    /\ last_save # <<>>
    /\ vs_call.a = last_save[1].index_path
    /\ vs_call.b = last_save[1].docs_path
    /\ vs_call.a # vs_call.b
    /\ built
    /\ Len(documents) = 3
    /\ index[1].d # DenseDimension
    /\ vs_model = "dense"

\* C13: every search on an index that holds vectors encodes its query
\* with the strategy of the store into the dimension of the vectors the
\* index holds, and so returns; an index obtained by load and a fallback
\* store whose dimension was lowered at build time are included.
C13_QueryMatchesIndex ==
    (vs_call.op = "search" /\ index # <<>> /\ Len(index[1].vecs) > 0)
    => (vs_ret = "ok" /\ QueryDimension = index[1].d)

(***************************************************************************)
(* Properties of generate_answer and answer_question                       *)
(***************************************************************************)
\* the re-count of create_prompt exceeded the limit in the call that answered
SizingFault == PromptExceeds(query, selected_chunks)

\* C14: when the re-count of the assembled prompt exceeds the limit, what
\* generate_answer hands its caller is not the error payload that a failure
\* of the external call is turned into.
C14_SizingFaultDistinct ==
    (rag_pc \in {"answered", "returned"} /\ SizingFault)
    => answer[1].payload # ErrorPayload("APIConnectionError").payload

\* C15: answer_question never raises: it returns a bundle whose answer is
\* the model's text or an error payload, whose chunks_used is the size of
\* the selection and whose chunks_retrieved is the number of candidates,
\* the former never above the latter.
C15_BundleReturned ==
    /\ rag_pc # "raised"
    /\ rag_pc = "returned" =>
          /\ response[1].answer.payload \in {"text", "error"}
          /\ response[1].chunks_used = Len(selected_chunks)
          /\ response[1].chunks_retrieved = Len(retrieved_chunks)
          /\ response[1].chunks_used <= response[1].chunks_retrieved

\* C16: the citation list holds exactly one entry for each distinct path
\* of the accepted chunks: no path twice, and nothing cited for a chunk
\* that was not accepted.
C16_OneCitationPerPath ==
    rag_pc = "returned" =>
        LET sources == response[1].sources
            paths == SelectedFilepaths(selected_chunks)
        IN /\ { sources[i].filepath : i \in 1..Len(sources) } = paths
           /\ Len(sources) = Cardinality(paths)

(***************************************************************************)
(* More properties of the chunker                                          *)
(***************************************************************************)
\* C18: for a text longer than size and 0 <= overlap < size, every chunk
\* after the first ends beyond the end of the chunk before it: it holds at
\* least one character the preceding chunks did not.
C18_NoRedundantChunk ==
    (chunk_pc = "done" /\ ValidConfig /\ StrLen(text) > chunk_size) =>
        \A k \in 2..Len(chunks) : ChunkEnd(k) > ChunkEnd(k - 1)

(***************************************************************************)
(* The front-end session: app.py                                           *)
(***************************************************************************)
MaxChat == 4           \* messages kept in chat_history

RECURSIVE RStrip(_, _)
\* s.rstrip(ch)
RStrip(s, ch) ==
    IF s = <<>> THEN s
    ELSE IF s[Len(s)] = ch THEN RStrip(SubSeq(s, 1, Len(s) - 1), ch)
    ELSE s

RECURSIVE LastSegment(_, _)
\* s.split(ch)[-1]
LastSegment(s, ch) ==
    IF s = <<>> THEN <<>>
    ELSE IF s[Len(s)] = ch THEN <<>>
    ELSE Append(LastSegment(SubSeq(s, 1, Len(s) - 1), ch), s[Len(s)])

RECURSIVE Replace(_, _, _)
\* s.replace(old, new), old not empty
Replace(s, old, new) ==
    IF Len(s) < Len(old) THEN s
    ELSE IF SubSeq(s, 1, Len(old)) = old
    THEN new \o Replace(SubSeq(s, Len(old) + 1, Len(s)), old, new)
    ELSE <<s[1]>> \o Replace(Tail(s), old, new)

DotGit == <<".", "g", "i", "t">>

\* repo_url.rstrip('/').split('/')[-1].replace('.git', '')
RepoName(repo_url) == Replace(LastSegment(RStrip(repo_url, "/"), "/"), DotGit, <<>>)

\* the URLs typed into the form: "u/a", "u/b.git/", "u/c.gith//"
RepoUrls ==
    { <<"u", "/", "a">>,
      <<"u", "/", "b", ".", "g", "i", "t", "/">>,
      <<"u", "/", "c", ".", "g", "i", "t", "h", "/", "/">> }

\* how far a load gets: load_repo raises, load_repo returns no documents,
\* chunking or build_index raises, RAGEngine() raises, nothing fails, or a
\* widget event stops the script run at an st.* call before vector_store is
\* assigned, after it, or after rag_engine is assigned
LoadOutcomes ==
    {"clone_error", "no_documents", "index_error", "engine_error", "ok",
     "rerun_before_store", "rerun_after_store", "rerun_after_engine"}

\* the "Load Repository" button with a URL in the form
LoadRepository(repo_url, outcome) ==
    /\ repo_url # <<>>
    /\ IF outcome \in {"clone_error", "index_error"}
       THEN /\ page' = "Error loading repository"
            /\ UNCHANGED <<vector_store, rag_engine, repo_loaded, repo_name, chat_history>>
       ELSE IF outcome = "no_documents"
       THEN /\ page' = "No code files found in repository"
            /\ UNCHANGED <<vector_store, rag_engine, repo_loaded, repo_name, chat_history>>
       ELSE IF outcome = "rerun_before_store"
       THEN UNCHANGED <<vector_store, rag_engine, repo_loaded, repo_name, chat_history, page>>
       ELSE /\ vector_store' = <<[repo |-> repo_url]>>
            /\ IF outcome = "rerun_after_store"
               THEN UNCHANGED <<rag_engine, repo_loaded, repo_name, chat_history, page>>
               ELSE IF outcome = "engine_error"
               THEN /\ page' = "Error loading repository"
                    /\ UNCHANGED <<rag_engine, repo_loaded, repo_name, chat_history>>
               ELSE /\ rag_engine' = <<"RAGEngine">>
                    /\ IF outcome = "rerun_after_engine"
                       THEN UNCHANGED <<repo_loaded, repo_name, chat_history, page>>
                       ELSE /\ repo_loaded' = TRUE
                            /\ repo_name' = RepoName(repo_url)
                            /\ chat_history' = <<>>
                            /\ page' = "RAG engine ready"
    /\ UNCHANGED <<ragVars, chunkVars, storeVars>>

\* the "Load New Repository" button, shown while repo_loaded
LoadNewRepository ==
    /\ repo_loaded
    /\ repo_loaded' = FALSE
    /\ vector_store' = <<>>
    /\ rag_engine' = <<>>
    /\ chat_history' = <<>>
    /\ page' = "start"
    /\ UNCHANGED repo_name
    /\ UNCHANGED <<ragVars, chunkVars, storeVars>>

\* how a question ends: the search returns nothing, answer_question
\* returns, answer_question raises, or a widget event stops the script run
\* between the two appends
QueryOutcomes == {"none_found", "answered", "raised", "rerun"}

\* a question typed into the chat input, shown while repo_loaded
Query(outcome) ==
    /\ repo_loaded
    /\ Len(chat_history) + 2 <= MaxChat
    /\ IF vector_store = <<>> \/ (outcome # "none_found" /\ rag_engine = <<>>)
          \/ outcome = "raised"
       THEN \* an exception nothing catches, after the user's message was appended
            /\ chat_history' = Append(chat_history, [role |-> "user", about |-> <<>>])
            /\ page' = "exception"
       ELSE IF outcome = "rerun"
       THEN /\ chat_history' = Append(chat_history, [role |-> "user", about |-> <<>>])
            /\ page' = "chat"
       ELSE /\ chat_history' =
                 chat_history \o
                   << [role |-> "user", about |-> <<>>],
                      [role |-> "assistant",
                       about |-> IF outcome = "answered"
                                 THEN RepoName(vector_store[1].repo) ELSE <<>>] >>
            /\ page' = "chat"
    /\ UNCHANGED <<vector_store, rag_engine, repo_loaded, repo_name>>
    /\ UNCHANGED <<ragVars, chunkVars, storeVars>>

InitApp == RagIdle /\ ChunkerIdle /\ StoreIdle /\ SessionNew

NextApp ==
    \/ \E repo_url \in RepoUrls, outcome \in LoadOutcomes : LoadRepository(repo_url, outcome)
    \/ LoadNewRepository
    \/ \E outcome \in QueryOutcomes : Query(outcome)

SpecApp == InitApp /\ [][NextApp]_vars

\* C17: whenever repo_loaded is true the session holds a vector store and a
\* RAG engine, and the store's index is the one built for the repository
\* that repo_name names, whatever loads (failed at any step or not), resets
\* and queries came before.
C17_ResidentIndexIsNamedRepo ==
    repo_loaded =>
        /\ vector_store # <<>>
        /\ rag_engine # <<>>
        /\ RepoName(vector_store[1].repo) = repo_name

=============================================================================
